---- MODULE Spec2Model ----
(***************************************************************************)
(* A model of android::base logging (lib/base/logging.cpp): the process-   *)
(* wide logger/aborter registry, the minimum-severity threshold, the       *)
(* LogMessage destructor's emission protocol (filter, finalize, split into *)
(* lines under the logging lock, abort), ScopedLogSeverity, InitLogging    *)
(* with its ANDROID_LOG_TAGS parser, and KernelLogger's formatting into    *)
(* its fixed buffer.                                                       *)
(*                                                                         *)
(* A string is a sequence of characters.  A character is a one-element     *)
(* piece of text: the line break NL, the terminator NUL, or any other      *)
(* piece of break-free text (a letter, or a literal such as ": ").         *)
(* Message text is drawn from characters other than NUL: the logger and    *)
(* the aborter take C strings.                                             *)
(***************************************************************************)
EXTENDS Integers, Sequences, FiniteSets, TLC

----------------------------------------------------------------------------
(* LogSeverity, in its declared order. *)
VERBOSE == 0
DEBUG == 1
INFO == 2
WARNING == 3
ERROR == 4
FATAL_WITHOUT_ABORT == 5
FATAL == 6
Severities == VERBOSE..FATAL

(* Bounds of the model. *)
MaxLen == 3       \* characters streamed into one record
MaxOps == 3       \* top-level calls the thread of a one-thread program makes
MaxConcOps == 2   \* top-level calls each of the concurrent threads makes
MaxDepth == 2     \* ScopedLogSeverity objects alive in one thread
MaxTokens == 2    \* tokens joined into ANDROID_LOG_TAGS
MaxShort == 4     \* short tags and messages given to KernelLogger: 0..MaxShort characters
MaxNear == 48     \* long ones: from MaxNear characters less than the buffer, up to its size
MaxFairOps == 1   \* top-level calls each thread makes under fair scheduling

Threads == {"T1", "T2"}
NoThread == "none"

NL == "\n"
NUL == "NUL"
Chars == {"a", NL}

(* The error argument of a LogMessage: -1 means "no errno". *)
NoError == -1
Errors == {NoError, 2}      \* no errno, or ENOENT

(* strerror(3): the platform's description of an error code, break-free. *)
strerror(e) == IF e = 2 THEN << "No such file or directory" >> ELSE << "Unknown error" >>

Loggers == {"StderrLogger", "TestLogger"}
Aborters == {"DefaultAborter", "TestAborter"}

(* argv of InitLogging: nullptr, or an argv whose argv[0] is a path. *)
nullptr == "nullptr"
Argvs == {nullptr, "/bin/prog"}
basename(path) == IF path = "/bin/prog" THEN "prog" ELSE path

----------------------------------------------------------------------------
(* std::string helpers, 0-based as in the source. *)
npos == -1

\* s.find(c, from): the first index >= from holding c, or npos.
find(s, c, from) ==
  IF \E k \in from..(Len(s) - 1) : s[k + 1] = c
  THEN CHOOSE k \in from..(Len(s) - 1) :
         /\ s[k + 1] = c
         /\ \A j \in from..(k - 1) : s[j + 1] # c
  ELSE npos

\* The C string at &s[from]: the characters up to the first NUL; a
\* std::string's buffer is NUL-terminated after its last character.
CStr(s, from) ==
  LET z == find(s, NUL, from)
      end == IF z = npos THEN Len(s) ELSE z
  IN  SubSeq(s, from + 1, end)

----------------------------------------------------------------------------
VARIABLES
  gInitialized,            \* static bool gInitialized
  gMinimumLogSeverity,     \* static LogSeverity gMinimumLogSeverity
  Logger,                  \* the LogFunction held by Logger()
  Aborter,                 \* the AbortFunction held by Aborter()
  ProgramInvocationName,   \* the string held by ProgramInvocationName()
  LoggingLock,             \* the thread holding LoggingLock(), or NoThread
  env,                     \* getenv("ANDROID_LOG_TAGS"): nullptr or a string
  aborted,                 \* abort() was called: the process is gone
  pc,                      \* each thread's position
  ret,                     \* where a thread continues when its LogMessage is destroyed
  data_,                   \* each thread's LogMessageData: severity, error, buffer
  msg,                     \* ~LogMessage's local std::string msg
  i,                       \* ~LogMessage's local size_t i
  args,                    \* the arguments of the call a thread is in
  old_severity,            \* SetMinimumLogSeverity's local old_severity
  scopes,                  \* the old_ of each ScopedLogSeverity alive in a thread, innermost last
  tags,                    \* InitLogging's local tags
  specs,                   \* InitLogging's local specs
  spec_i,                  \* InitLogging's loop index i
  ops,                     \* top-level calls each thread has made
  budget,                  \* top-level calls each thread may make
  klog,                    \* KernelLogger's arguments and locals: klog_fd, severity, tag, msg, buf, size, iov
  recState,                \* observed: the state of each thread's latest record
  calls,                   \* observed: the logger invocations, in order
  aborts,                  \* observed: the aborter invocations, in order
  entered,                 \* observed: the threshold at the entry of each scope alive in a thread
  results                  \* observed: what each thread's latest call returned or did

globals == << gInitialized, gMinimumLogSeverity, Logger, Aborter,
              ProgramInvocationName, LoggingLock, env, aborted >>
recLocals == << data_, msg, i >>
initLocals == << tags, specs, spec_i >>
sevLocals == << old_severity, scopes >>
observed == << recState, calls, aborts, entered, results >>
vars == << globals, pc, ret, recLocals, args, sevLocals, initLocals, ops, budget, klog, observed >>

NoArgs == [argv |-> nullptr, logger |-> "StderrLogger", aborter |-> "DefaultAborter",
           new_severity |-> INFO, kind |-> "none"]
NoData == [severity |-> INFO, error |-> NoError, buffer |-> << >>]
NoResult == [kind |-> "none", value |-> INFO, before |-> INFO]

(* Observation bookkeeping: a thread's new top-level record or call       *)
(* replaces what was recorded of its previous one; the records a call     *)
(* emits itself are recorded together.                                     *)
Others(seq, t) == SelectSeq(seq, LAMBDA c : c.thread # t)
CallsOf(t) == SelectSeq(calls, LAMBDA c : c.thread = t)
AbortsOf(t) == SelectSeq(aborts, LAMBDA c : c.thread = t)
MessagesOf(seq) == [k \in 1..Len(seq) |-> seq[k].message]

----------------------------------------------------------------------------
(* The environment values InitLogging may find. *)
Join(toks) ==
  LET RECURSIVE J(_)
      J(k) == IF k > Len(toks) THEN << >>
              ELSE IF k = Len(toks) THEN toks[k]
              ELSE toks[k] \o << " " >> \o J(k + 1)
  IN  J(1)

Tokens == { << "*", ":", "v" >>, << "*", ":", "d" >>, << "*", ":", "i" >>,
            << "*", ":", "w" >>, << "*", ":", "e" >>, << "*", ":", "f" >>,
            << "*", ":", "s" >>, << "*", ":", "q" >>, << "f", ":", "w" >>,
            << "*", ":" >>, << >> }
TokenLists == UNION { [1..n -> Tokens] : n \in 0..MaxTokens }
NoEnv == [isnull |-> TRUE, str |-> << >>]
EnvOf(str) == [isnull |-> FALSE, str |-> str]
EnvValues == {NoEnv} \cup { EnvOf(Join(l)) : l \in TokenLists }

(* KernelLogger's buffer, line 174, and the lengths of the tags and       *)
(* messages it is given: short ones and ones about as long as the buffer. *)
sizeof_buf == 1024
Lengths == (0..MaxShort) \cup ((sizeof_buf - MaxNear)..sizeof_buf)

\* The text buf holds: the first `held` characters of a formatted string of
\* `length` characters, then a NUL.
NoBuf == [format |-> "none", length |-> 0, held |-> 0]
NoKlog == [at |-> "none", klog_fd |-> -1, severity |-> INFO, tag |-> 0, msg |-> 0,
           buf |-> NoBuf, size |-> 0, iov_len |-> 0]
KlogCall(fd, severity, tag, m) ==
  [NoKlog EXCEPT !.at = "called", !.klog_fd = fd, !.severity = severity,
                 !.tag = tag, !.msg = m]
KlogInputs ==
  { KlogCall(fd, severity, tag, m) :
      fd \in {-1, 3}, severity \in Severities, tag \in Lengths, m \in Lengths }

InitAll(envs, n, klogs) ==
  /\ klog \in klogs
  /\ gInitialized = FALSE
  /\ gMinimumLogSeverity = INFO
  /\ Logger = "StderrLogger"
  /\ Aborter = "DefaultAborter"
  /\ ProgramInvocationName = "getprogname"
  /\ LoggingLock = NoThread
  /\ env \in envs
  /\ aborted = FALSE
  /\ pc = [t \in Threads |-> "idle"]
  /\ ret = [t \in Threads |-> "idle"]
  /\ data_ = [t \in Threads |-> NoData]
  /\ msg = [t \in Threads |-> << >>]
  /\ i = [t \in Threads |-> 0]
  /\ args = [t \in Threads |-> NoArgs]
  /\ old_severity = [t \in Threads |-> INFO]
  /\ scopes = [t \in Threads |-> << >>]
  /\ tags = [t \in Threads |-> NoEnv]
  /\ specs = [t \in Threads |-> << >>]
  /\ spec_i = [t \in Threads |-> 0]
  /\ ops = [t \in Threads |-> 0]
  /\ budget = n
  /\ recState = [t \in Threads |-> "NONE"]
  /\ calls = << >>
  /\ aborts = << >>
  /\ entered = [t \in Threads |-> << >>]
  /\ results = [t \in Threads |-> NoResult]

InitWith(envs, n) == InitAll(envs, n, {NoKlog})

----------------------------------------------------------------------------
(* Severity policy. *)
GetMinimumLogSeverityDefault == INFO

\* GetMinimumLogSeverity, lines 447-449.
GetMinimumLogSeverity == gMinimumLogSeverity

\* WOULD_LOG(severity) of android-base/logging.h, as the specification's
\* ShouldEmit states it.
WOULD_LOG(severity) ==
  \/ severity >= GetMinimumLogSeverity
  \/ severity \in {FATAL, FATAL_WITHOUT_ABORT}

----------------------------------------------------------------------------
(* A top-level call starts: it counts against the thread's budget and     *)
(* replaces the observations of the thread's previous call.               *)
\* A thread is at a place of its code while the process is alive.
At(t, place) == ~aborted /\ pc[t] = place

CanCall(t) == At(t, "idle") /\ ops[t] < budget

CanLockAlways(t) == TRUE

\* Acquiring LoggingLock(): possible only while no thread holds it.
CanLock(t) == LoggingLock = NoThread

\* LogMessage::LogMessage: a fresh LogMessageData; the call site's text
\* is then streamed into its buffer.
Construct(t, severity, error, buffer, back) ==
  /\ data_' = [data_ EXCEPT ![t] = [severity |-> severity, error |-> error,
                                    buffer |-> buffer]]
  /\ msg' = [msg EXCEPT ![t] = << >>]
  /\ i' = [i EXCEPT ![t] = 0]
  /\ ret' = [ret EXCEPT ![t] = back]
  /\ pc' = [pc EXCEPT ![t] = "stream"]
  /\ recState' = [recState EXCEPT ![t] = "ACCUMULATING"]
  /\ calls' = IF back = "idle" THEN Others(calls, t) ELSE calls
  /\ aborts' = IF back = "idle" THEN Others(aborts, t) ELSE aborts

\* A call other than a LogMessage starts.
StartCall(t, a, first) ==
  /\ CanCall(t)
  /\ pc' = [pc EXCEPT ![t] = first]
  /\ args' = [args EXCEPT ![t] = a]
  /\ ops' = [ops EXCEPT ![t] = @ + 1]
  /\ results' = [results EXCEPT ![t] = NoResult]
  /\ recState' = [recState EXCEPT ![t] = "NONE"]
  /\ calls' = Others(calls, t)
  /\ aborts' = Others(aborts, t)

\* A call site creates a LogMessage (LOG_STREAM, PLOG, ...). The threshold
\* in force at that moment is observed.
LogMessageCtor(t, severity, error) ==
  /\ CanCall(t)
  /\ Construct(t, severity, error, << >>, "idle")
  /\ ops' = [ops EXCEPT ![t] = @ + 1]
  /\ results' = [results EXCEPT ![t] = [kind |-> "LogMessage",
                                        value |-> gMinimumLogSeverity,
                                        before |-> gMinimumLogSeverity]]
  /\ UNCHANGED << globals, args, sevLocals, initLocals, budget, klog, entered >>

\* LogMessage::stream(): the call site streams a piece of text into the
\* buffer.
stream(t, text) ==
  /\ At(t, "stream")
  /\ ret[t] = "idle"
  /\ Len(data_[t].buffer) + Len(text) <= MaxLen
  /\ data_' = [data_ EXCEPT ![t].buffer = @ \o text]
  /\ UNCHANGED << globals, pc, ret, msg, i, args, sevLocals, initLocals, ops, budget, klog, observed >>

\* Where a thread continues once its LogMessage is destroyed.
Return(t) == pc' = [pc EXCEPT ![t] = ret[t]]

FinalizedWithoutSuffix(d) == d.buffer

\* ~LogMessage, lines 399-408: the filter, then the message is finished.
Finalized(d) ==
  IF d.error # NoError THEN d.buffer \o << ": " >> \o strerror(d.error)
  ELSE d.buffer

DtorCheckAtCreation(t) ==
  /\ At(t, "stream")
  /\ IF ~(data_[t].severity >= results[t].value
          \/ data_[t].severity \in {FATAL, FATAL_WITHOUT_ABORT})
     THEN /\ Return(t)
          /\ recState' = [recState EXCEPT ![t] = "FILTERED"]
          /\ UNCHANGED << data_, msg >>
     ELSE /\ data_' = [data_ EXCEPT ![t].buffer = Finalized(data_[t])]
          /\ msg' = [msg EXCEPT ![t] = Finalized(data_[t])]
          /\ pc' = [pc EXCEPT ![t] = "dtor_lock"]
          /\ recState' = [recState EXCEPT ![t] = "EMITTING"]
  /\ UNCHANGED << globals, ret, i, args, sevLocals, initLocals, ops, budget, klog, calls, aborts, entered, results >>

DtorCheck(t) ==
  /\ At(t, "stream")
  /\ IF ~WOULD_LOG(data_[t].severity)
     THEN /\ Return(t)
          /\ recState' = [recState EXCEPT ![t] = "FILTERED"]
          /\ UNCHANGED << data_, msg >>
     ELSE /\ data_' = [data_ EXCEPT ![t].buffer = Finalized(data_[t])]
          /\ msg' = [msg EXCEPT ![t] = Finalized(data_[t])]
          /\ pc' = [pc EXCEPT ![t] = "dtor_lock"]
          /\ recState' = [recState EXCEPT ![t] = "EMITTING"]
  /\ UNCHANGED << globals, ret, i, args, sevLocals, initLocals, ops, budget, klog, calls, aborts, entered, results >>

\* LogMessage::LogLine: the logger is called with the program name as tag.
LogLine(t, message) ==
  Append(calls, [thread |-> t, logger |-> Logger, tag |-> ProgramInvocationName,
                 severity |-> data_[t].severity, message |-> message])

\* Line 413: does the message hold a line break?
HasBreak(m) == find(m, NL, 0) # npos

\* Lines 412-418: the lock is taken; a message with breaks gets one more.
DtorLock(t) ==
  /\ At(t, "dtor_lock")
  /\ CanLock(t)
  /\ LoggingLock' = t
  /\ IF ~HasBreak(msg[t])
     THEN /\ pc' = [pc EXCEPT ![t] = "dtor_single"]
          /\ UNCHANGED << msg, i >>
     ELSE /\ msg' = [msg EXCEPT ![t] = Append(@, NL)]
          /\ i' = [i EXCEPT ![t] = 0]
          /\ pc' = [pc EXCEPT ![t] = "dtor_loop"]
  /\ UNCHANGED << gInitialized, gMinimumLogSeverity, Logger, Aborter,
                  ProgramInvocationName, env, aborted, ret, data_, args,
                  sevLocals, initLocals, ops, budget, klog, observed >>

DtorLogSingleReentrant(t) ==
  /\ At(t, "dtor_single")
  /\ CanLock(t)
  /\ calls' = LogLine(t, CStr(msg[t], 0))
  /\ pc' = [pc EXCEPT ![t] = "dtor_unlock"]
  /\ UNCHANGED << globals, ret, recLocals, args, sevLocals, initLocals, ops, budget, klog,
                  recState, aborts, entered, results >>

\* Lines 414-415: the whole message is one line.
DtorLogSingle(t) ==
  /\ At(t, "dtor_single")
  /\ calls' = LogLine(t, CStr(msg[t], 0))
  /\ pc' = [pc EXCEPT ![t] = "dtor_unlock"]
  /\ UNCHANGED << globals, ret, recLocals, args, sevLocals, initLocals, ops, budget, klog,
                  recState, aborts, entered, results >>

LoopDoneAfterFirstLine(k, m) == k > 0 \/ ~(k < Len(m))

\* Line 419: the loop goes on while i < msg.size().
LoopDone(k, m) == ~(k < Len(m))

NextStartSkipsOne(nl) == nl + 2

\* Line 426: the next line starts after the break.
NextStart(nl) == nl + 1

\* Lines 419-427, one iteration: the break at nl is zeroed for the call and
\* then put back.
DtorLogLoop(t) ==
  /\ At(t, "dtor_loop")
  /\ IF LoopDone(i[t], msg[t])
     THEN /\ pc' = [pc EXCEPT ![t] = "dtor_unlock"]
          /\ UNCHANGED << i, calls >>
     ELSE LET nl == find(msg[t], NL, i[t])
              zeroed == [msg[t] EXCEPT ![nl + 1] = NUL]
          IN  /\ calls' = LogLine(t, CStr(zeroed, i[t]))
              /\ i' = [i EXCEPT ![t] = NextStart(nl)]
              /\ UNCHANGED pc
  /\ UNCHANGED << globals, ret, data_, msg, args, sevLocals, initLocals, ops, budget, klog,
                  recState, aborts, entered, results >>

ShouldAbortAnyFatalTier(severity) == severity >= FATAL_WITHOUT_ABORT

\* Line 432: only FATAL aborts.
ShouldAbort(severity) == severity = FATAL

DtorUnlockKeepsLock(t) ==
  /\ At(t, "dtor_unlock")
  /\ IF ShouldAbort(data_[t].severity)
     THEN /\ pc' = [pc EXCEPT ![t] = "dtor_abort"]
          /\ UNCHANGED << recState, LoggingLock >>
     ELSE /\ Return(t)
          /\ LoggingLock' = NoThread
          /\ recState' = [recState EXCEPT ![t] = "DONE"]
  /\ UNCHANGED << gInitialized, gMinimumLogSeverity, Logger, Aborter,
                  ProgramInvocationName, env, aborted, ret, recLocals, args,
                  sevLocals, initLocals, ops, budget, klog, calls, aborts, entered, results >>

\* Line 429: the lock_guard's scope ends.
DtorUnlock(t) ==
  /\ At(t, "dtor_unlock")
  /\ LoggingLock' = NoThread
  /\ IF ShouldAbort(data_[t].severity)
     THEN /\ pc' = [pc EXCEPT ![t] = "dtor_abort"]
          /\ UNCHANGED recState
     ELSE /\ Return(t)
          /\ recState' = [recState EXCEPT ![t] = "DONE"]
  /\ UNCHANGED << gInitialized, gMinimumLogSeverity, Logger, Aborter,
                  ProgramInvocationName, env, aborted, ret, recLocals, args,
                  sevLocals, initLocals, ops, budget, klog, calls, aborts, entered, results >>

\* Line 433: Aborter() is read, without the lock, and called with the
\* message. DefaultAborter calls abort(); an aborter that returns lets the
\* destructor return.
DtorAbort(t) ==
  /\ At(t, "dtor_abort")
  /\ aborts' = Append(aborts, [thread |-> t, aborter |-> Aborter,
                               message |-> CStr(msg[t], 0),
                               logged |-> MessagesOf(CallsOf(t)),
                               lock |-> LoggingLock])
  /\ aborted' = (Aborter = "DefaultAborter")
  /\ recState' = [recState EXCEPT ![t] = "ABORTING"]
  /\ Return(t)
  /\ UNCHANGED << gInitialized, gMinimumLogSeverity, Logger, Aborter,
                  ProgramInvocationName, LoggingLock, env, ret, recLocals, args,
                  sevLocals, initLocals, ops, budget, klog, calls, entered, results >>

----------------------------------------------------------------------------
(* The registry. *)
SetLoggerCall(t, logger) ==
  /\ StartCall(t, [NoArgs EXCEPT !.logger = logger, !.kind = "SetLogger"], "SetLogger")
  /\ UNCHANGED << globals, ret, recLocals, sevLocals, initLocals, budget, klog, entered >>

SetAborterCall(t, aborter) ==
  /\ StartCall(t, [NoArgs EXCEPT !.aborter = aborter, !.kind = "SetAborter"], "SetAborter")
  /\ UNCHANGED << globals, ret, recLocals, sevLocals, initLocals, budget, klog, entered >>

SetLoggerWithoutLock(t) ==
  /\ At(t, "SetLogger")
  /\ Logger' = args[t].logger
  /\ pc' = [pc EXCEPT ![t] = IF args[t].kind = "InitLogging" THEN "SetAborter" ELSE "idle"]
  /\ UNCHANGED << gInitialized, gMinimumLogSeverity, Aborter, ProgramInvocationName,
                  LoggingLock, env, aborted, ret, recLocals, args, sevLocals,
                  initLocals, ops, budget, klog, observed >>

\* SetLogger, lines 315-318, called directly or by InitLogging (line 257).
\* The lock is held for the one assignment.
SetLogger(t) ==
  /\ At(t, "SetLogger")
  /\ CanLock(t)
  /\ Logger' = args[t].logger
  /\ pc' = [pc EXCEPT ![t] = IF args[t].kind = "InitLogging" THEN "SetAborter" ELSE "idle"]
  /\ UNCHANGED << gInitialized, gMinimumLogSeverity, Aborter, ProgramInvocationName,
                  LoggingLock, env, aborted, ret, recLocals, args, sevLocals,
                  initLocals, ops, budget, klog, observed >>

\* SetAborter, lines 320-323, called directly or by InitLogging (line 258).
\* The lock is held for the one assignment.
SetAborter(t) ==
  /\ At(t, "SetAborter")
  /\ CanLock(t)
  /\ Aborter' = args[t].aborter
  /\ pc' = [pc EXCEPT ![t] = IF args[t].kind = "InitLogging" THEN "init_check" ELSE "idle"]
  /\ UNCHANGED << gInitialized, gMinimumLogSeverity, Logger, ProgramInvocationName,
                  LoggingLock, env, aborted, ret, recLocals, args, sevLocals,
                  initLocals, ops, budget, klog, observed >>

----------------------------------------------------------------------------
(* SetMinimumLogSeverity and ScopedLogSeverity. Lines 452 and 453 are a    *)
(* read and a write of gMinimumLogSeverity with no lock held: two steps.   *)
SetMinimumLogSeverityCall(t, new_severity) ==
  /\ StartCall(t, [NoArgs EXCEPT !.new_severity = new_severity,
                                 !.kind = "SetMinimumLogSeverity"], "setmin_read")
  /\ UNCHANGED << globals, ret, recLocals, sevLocals, initLocals, budget, klog, entered >>

\* ScopedLogSeverity::ScopedLogSeverity(new_severity), lines 457-459.
ScopedLogSeverityCtor(t, new_severity) ==
  /\ Len(scopes[t]) < MaxDepth
  /\ StartCall(t, [NoArgs EXCEPT !.new_severity = new_severity,
                                 !.kind = "ScopedCtor"], "setmin_read")
  /\ entered' = [entered EXCEPT ![t] = Append(@, gMinimumLogSeverity)]
  /\ UNCHANGED << globals, ret, recLocals, sevLocals, initLocals, budget, klog >>

RestoreOutermost(stack) == stack[1]

\* The old_ a scope's destructor restores: that of the innermost scope.
RestoreValue(stack) == stack[Len(stack)]

\* ScopedLogSeverity::~ScopedLogSeverity, lines 461-463: the innermost
\* scope of the thread ends.
ScopedLogSeverityDtor(t) ==
  /\ At(t, "idle")
  /\ scopes[t] # << >>
  /\ pc' = [pc EXCEPT ![t] = "setmin_read"]
  /\ args' = [args EXCEPT ![t] = [NoArgs EXCEPT !.new_severity = RestoreValue(scopes[t]),
                                                !.kind = "ScopedDtor"]]
  /\ results' = [results EXCEPT ![t] = NoResult]
  /\ UNCHANGED << globals, ret, recLocals, sevLocals, initLocals, ops, budget, klog,
                  recState, calls, aborts, entered >>

\* Line 452: LogSeverity old_severity = gMinimumLogSeverity.
SetMinRead(t) ==
  /\ At(t, "setmin_read")
  /\ old_severity' = [old_severity EXCEPT ![t] = gMinimumLogSeverity]
  /\ pc' = [pc EXCEPT ![t] = "setmin_write"]
  /\ UNCHANGED << globals, ret, recLocals, args, scopes, initLocals, ops, budget, klog, observed >>

\* Lines 453-454: gMinimumLogSeverity = new_severity; return old_severity.
\* The constructor keeps the result as old_; the destructor drops it.
SetMinWrite(t) ==
  /\ At(t, "setmin_write")
  /\ gMinimumLogSeverity' = args[t].new_severity
  /\ pc' = [pc EXCEPT ![t] = "idle"]
  /\ scopes' = [scopes EXCEPT ![t] =
                  CASE args[t].kind = "ScopedCtor" -> Append(@, old_severity[t])
                    [] args[t].kind = "ScopedDtor" -> SubSeq(@, 1, Len(@) - 1)
                    [] OTHER -> @]
  /\ entered' = [entered EXCEPT ![t] =
                  IF args[t].kind = "ScopedDtor" THEN SubSeq(@, 1, Len(@) - 1) ELSE @]
  /\ results' = [results EXCEPT ![t] =
                  [kind |-> args[t].kind, value |-> old_severity[t],
                   before |-> IF args[t].kind = "ScopedDtor"
                              THEN entered[t][Len(entered[t])] ELSE old_severity[t]]]
  /\ UNCHANGED << gInitialized, Logger, Aborter, ProgramInvocationName, LoggingLock,
                  env, aborted, ret, recLocals, args, old_severity, initLocals, ops, budget, klog,
                  recState, calls, aborts >>

----------------------------------------------------------------------------
(* InitLogging. *)

\* android::base::Split(s, delimiters) of android-base/strings.h: the
\* pieces between delimiter characters, empty pieces included.
Split(str, delim) ==
  LET RECURSIVE S(_)
      S(base) == LET found == find(str, delim, base)
                 IN  IF found = npos THEN << SubSeq(str, base + 1, Len(str)) >>
                     ELSE << SubSeq(str, base + 1, found) >> \o S(found + 1)
  IN  S(0)

\* android::base::StartsWith of android-base/strings.h.
StartsWith(str, prefix) ==
  /\ Len(str) >= Len(prefix)
  /\ SubSeq(str, 1, Len(prefix)) = prefix

LetterSeveritySilent(c) ==
  CASE c = "v" -> VERBOSE
    [] c = "d" -> DEBUG
    [] c = "i" -> INFO
    [] c = "w" -> WARNING
    [] c = "e" -> ERROR
    [] c = "f" -> FATAL_WITHOUT_ABORT
    [] c = "s" -> FATAL

\* Lines 284-308: the letters of the switch and what each sets.
LetterSeverity(c) ==
  CASE c = "v" -> VERBOSE
    [] c = "d" -> DEBUG
    [] c = "i" -> INFO
    [] c = "w" -> WARNING
    [] c = "e" -> ERROR
    [] c = "f" -> FATAL_WITHOUT_ABORT
    [] c = "s" -> FATAL_WITHOUT_ABORT

ValidSpecAnyPrefix(spec) ==
  /\ Len(spec) = 3
  /\ spec[2] = ":"
  /\ spec[3] \in {"v", "d", "i", "w", "e", "f", "s"}

\* Line 283 and the cases of the switch.
ValidSpec(spec) ==
  /\ Len(spec) = 3
  /\ StartsWith(spec, << "*", ":" >>)
  /\ spec[3] \in {"v", "d", "i", "w", "e", "f", "s"}

\* Lines 310-311: the text streamed into the FATAL record.
Unsupported(spec, str) ==
  << "unsupported '" >> \o spec \o << "' in ANDROID_LOG_TAGS (" >> \o str \o << ")" >>

InitLoggingCall(t, argv, logger, aborter) ==
  /\ StartCall(t, [NoArgs EXCEPT !.argv = argv, !.logger = logger,
                                 !.aborter = aborter, !.kind = "InitLogging"], "SetLogger")
  /\ UNCHANGED << globals, ret, recLocals, sevLocals, initLocals, budget, klog, entered >>

InitResult(t, first) ==
  results' = [results EXCEPT ![t] = [kind |-> "InitLogging",
                                     value |-> IF first THEN 1 ELSE 0,
                                     before |-> 0]]

InitCheckAlways(t) ==
  /\ At(t, "init_check")
  /\ pc' = [pc EXCEPT ![t] = "init_set"]
  /\ UNCHANGED << globals, ret, recLocals, args, sevLocals, initLocals, ops, budget, klog,
                  observed >>

\* Lines 260-262.
InitCheck(t) ==
  /\ At(t, "init_check")
  /\ IF gInitialized
     THEN /\ pc' = [pc EXCEPT ![t] = "idle"]
          /\ InitResult(t, FALSE)
     ELSE /\ pc' = [pc EXCEPT ![t] = "init_set"]
          /\ UNCHANGED results
  /\ UNCHANGED << globals, ret, recLocals, args, sevLocals, initLocals, ops, budget, klog,
                  recState, calls, aborts, entered >>

\* Line 264.
InitSet(t) ==
  /\ At(t, "init_set")
  /\ gInitialized' = TRUE
  /\ pc' = [pc EXCEPT ![t] = "init_stash"]
  /\ UNCHANGED << gMinimumLogSeverity, Logger, Aborter, ProgramInvocationName,
                  LoggingLock, env, aborted, ret, recLocals, args, sevLocals,
                  initLocals, ops, budget, klog, observed >>

\* Lines 269-272: the program name is stashed, under the lock.
InitStash(t) ==
  /\ At(t, "init_stash")
  /\ IF args[t].argv # nullptr
     THEN /\ CanLock(t)
          /\ ProgramInvocationName' = basename(args[t].argv)
     ELSE UNCHANGED ProgramInvocationName
  /\ pc' = [pc EXCEPT ![t] = "init_getenv"]
  /\ UNCHANGED << gInitialized, gMinimumLogSeverity, Logger, Aborter, LoggingLock,
                  env, aborted, ret, recLocals, args, sevLocals, initLocals, ops, budget, klog,
                  observed >>

\* Lines 274-279.
InitGetenv(t) ==
  /\ At(t, "init_getenv")
  /\ tags' = [tags EXCEPT ![t] = env]
  /\ IF env.isnull
     THEN /\ pc' = [pc EXCEPT ![t] = "idle"]
          /\ InitResult(t, TRUE)
          /\ UNCHANGED << specs, spec_i >>
     ELSE /\ specs' = [specs EXCEPT ![t] = Split(env.str, " ")]
          /\ spec_i' = [spec_i EXCEPT ![t] = 0]
          /\ pc' = [pc EXCEPT ![t] = "init_loop"]
          /\ UNCHANGED results
  /\ UNCHANGED << globals, ret, recLocals, args, sevLocals, ops, budget, klog,
                  recState, calls, aborts, entered >>

\* Lines 280-312, one iteration: a valid spec sets the threshold; any
\* other is reported by LOG(FATAL), and the loop goes on if that returns.
InitLoop(t) ==
  /\ At(t, "init_loop")
  /\ IF ~(spec_i[t] < Len(specs[t]))
     THEN /\ pc' = [pc EXCEPT ![t] = "idle"]
          /\ InitResult(t, TRUE)
          /\ UNCHANGED << gMinimumLogSeverity, spec_i, ret, recLocals, recState,
                          calls, aborts >>
     ELSE LET spec == specs[t][spec_i[t] + 1]
          IN  /\ spec_i' = [spec_i EXCEPT ![t] = @ + 1]
              /\ IF ValidSpec(spec)
                 THEN /\ gMinimumLogSeverity' = LetterSeverity(spec[3])
                      /\ UNCHANGED << pc, ret, recLocals, recState, calls, aborts >>
                 ELSE /\ Construct(t, FATAL, NoError,
                                   Unsupported(spec, tags[t].str), "init_loop")
                      /\ UNCHANGED gMinimumLogSeverity
              /\ UNCHANGED results
  /\ UNCHANGED << gInitialized, Logger, Aborter, ProgramInvocationName, LoggingLock,
                  env, aborted, args, sevLocals, tags, specs, ops, budget, klog, entered >>

\* The program changes ANDROID_LOG_TAGS between two of its calls (setenv,
\* unsetenv): the value line 274 reads.
Setenv(t, value) ==
  /\ At(t, "idle")
  /\ env # value
  /\ env' = value
  /\ UNCHANGED << gInitialized, gMinimumLogSeverity, Logger, Aborter,
                  ProgramInvocationName, LoggingLock, aborted, pc, ret, recLocals,
                  args, sevLocals, initLocals, ops, budget, klog, observed >>

----------------------------------------------------------------------------
(* KernelLogger, lines 149-185. Tags and messages are taken by length.    *)
kLogSeverityToKernelLogLevel ==
  [severity \in Severities |->
     CASE severity \in {VERBOSE, DEBUG} -> 7
       [] severity = INFO -> 6
       [] severity = WARNING -> 4
       [] severity = ERROR -> 3
       [] severity \in {FATAL_WITHOUT_ABORT, FATAL} -> 2]

\* Characters of a number printed by %d or %zu.
Digits(n) ==
  IF n < 10 THEN 1 ELSE IF n < 100 THEN 2 ELSE IF n < 1000 THEN 3
  ELSE IF n < 10000 THEN 4 ELSE 5

\* Characters of "<%d>%s: %s\n", line 175.
LineLength(level, tag, m) == 1 + Digits(level) + 1 + tag + 2 + m + 1

\* Characters of "<%d>%s: %zu-byte message too long for printk\n", line 177.
NoticeLength(level, tag, size) == 1 + Digits(level) + 1 + tag + 2 + Digits(size) + 34

\* snprintf(buf, n, ...) of a string of `length` characters: at most n - 1
\* of them are stored, then a NUL; the result is the whole length.
snprintf(n, format, length) ==
  [size |-> length,
   buf |-> [format |-> format, length |-> length,
            held |-> IF length < n THEN length ELSE n - 1]]

KernelLogger ==
  /\ klog.at = "called"
  /\ klog' =
       IF klog.klog_fd = -1 THEN [klog EXCEPT !.at = "returned"]
       ELSE LET level == kLogSeverityToKernelLogLevel[klog.severity]
                line == snprintf(sizeof_buf, "line", LineLength(level, klog.tag, klog.msg))
                notice == snprintf(sizeof_buf, "notice",
                                   NoticeLength(level, klog.tag, line.size))
                out == IF line.size > sizeof_buf THEN notice ELSE line
            IN  [klog EXCEPT !.at = "written", !.buf = out.buf, !.size = out.size,
                             !.iov_len = out.size]
  /\ UNCHANGED << globals, pc, ret, recLocals, args, sevLocals, initLocals, ops, budget,
                  observed >>

----------------------------------------------------------------------------
(* What a thread may do next. *)
Emit(t, severities, errors, texts) ==
  \/ \E severity \in severities, error \in errors : LogMessageCtor(t, severity, error)
  \/ \E text \in texts : stream(t, text)
  \/ DtorCheck(t)
  \/ DtorLock(t)
  \/ DtorLogSingle(t)
  \/ DtorLogLoop(t)
  \/ DtorUnlock(t)
  \/ DtorAbort(t)

Registry(t, loggers, aborters) ==
  \/ \E logger \in loggers : SetLoggerCall(t, logger)
  \/ \E aborter \in aborters : SetAborterCall(t, aborter)
  \/ SetLogger(t)
  \/ SetAborter(t)

Threshold(t, severities) ==
  \/ \E new_severity \in severities : SetMinimumLogSeverityCall(t, new_severity)
  \/ SetMinRead(t)
  \/ SetMinWrite(t)

Scoped(t, severities) ==
  \/ \E new_severity \in severities : ScopedLogSeverityCtor(t, new_severity)
  \/ ScopedLogSeverityDtor(t)

Initialize(t, argvs, pairs) ==
  \/ \E argv \in argvs, pair \in pairs : InitLoggingCall(t, argv, pair[1], pair[2])
  \/ InitCheck(t)
  \/ InitSet(t)
  \/ InitStash(t)
  \/ InitGetenv(t)
  \/ InitLoop(t)

(* Threads running every operation concurrently. *)
Init == InitWith({NoEnv, EnvOf(<< "*", ":", "w" >>)}, MaxConcOps)

Next ==
  \E t \in Threads :
       \/ Emit(t, {INFO, FATAL}, {NoError}, {<< "a", NL, "b" >>})
       \/ Registry(t, {"TestLogger"}, {"TestAborter"})
       \/ Threshold(t, {ERROR})
       \/ Scoped(t, {DEBUG})
       \/ Initialize(t, {"/bin/prog"}, {<< "TestLogger", "TestAborter" >>})

Spec == Init /\ [][Next]_vars

(* Threads that emit records while loggers and aborters are replaced, by  *)
(* SetLogger, SetAborter and InitLogging.                                 *)
NextDispatch ==
  \E t \in Threads :
       \/ Emit(t, {INFO, FATAL}, {NoError}, {<< "a", NL, "b" >>})
       \/ Registry(t, {"TestLogger"}, {"TestAborter"})
       \/ Initialize(t, {"/bin/prog"}, {<< "TestLogger", "TestAborter" >>})

SpecDispatch == Init /\ [][NextDispatch]_vars

(* The same threads under fair scheduling: a thread inside a destructor   *)
(* or a call that can take its next step does take it, and a thread that  *)
(* waits for the lock gets it if the lock is free again and again.        *)
StepInside(t) ==
  \/ DtorCheck(t) \/ DtorLock(t) \/ DtorLogSingle(t) \/ DtorLogLoop(t)
  \/ DtorUnlock(t) \/ DtorAbort(t)
  \/ SetLogger(t) \/ SetAborter(t)
  \/ InitCheck(t) \/ InitSet(t) \/ InitStash(t) \/ InitGetenv(t) \/ InitLoop(t)

Acquire(t) == DtorLock(t) \/ SetLogger(t) \/ SetAborter(t) \/ InitStash(t)

FairScheduling == \A t \in Threads : WF_vars(StepInside(t)) /\ SF_vars(Acquire(t))

InitFair == InitWith({NoEnv, EnvOf(<< "*", ":", "w" >>)}, MaxFairOps)

SpecFair == InitFair /\ [][NextDispatch]_vars /\ FairScheduling

(* Threads that emit records while the logger and the aborter are         *)
(* replaced only in pairs, by InitLogging.                                *)
Pairs == { << "StderrLogger", "DefaultAborter" >>, << "TestLogger", "TestAborter" >> }

NextSwap ==
  \E t \in Threads :
       \/ Emit(t, {INFO, FATAL}, {NoError}, {<< "a", NL, "b" >>})
       \/ Initialize(t, {nullptr}, Pairs)
       \/ SetLogger(t)
       \/ SetAborter(t)

SpecSwap == Init /\ [][NextSwap]_vars

(* One thread emitting records of every severity, text and error under    *)
(* every threshold, logger and aborter.                                    *)
InitEmit == InitWith({NoEnv}, MaxOps)

NextEmit ==
  \/ Emit("T1", Severities, Errors, {<< c >> : c \in Chars})
  \/ Registry("T1", Loggers, Aborters)
  \/ Threshold("T1", Severities)

SpecEmit == InitEmit /\ [][NextEmit]_vars

(* One thread nesting scoped severity overrides around emissions. *)
NextScoped ==
  \/ Scoped("T1", Severities)
  \/ SetMinRead("T1")
  \/ SetMinWrite("T1")
  \/ \E severity \in {WARNING, FATAL_WITHOUT_ABORT} : LogMessageCtor("T1", severity, NoError)
  \/ stream("T1", << "a" >>)
  \/ DtorCheck("T1")
  \/ DtorLock("T1")
  \/ DtorLogSingle("T1")
  \/ DtorUnlock("T1")

SpecScoped == InitEmit /\ [][NextScoped]_vars

(* One thread calling InitLogging, under every environment value. *)
InitEnv == InitWith(EnvValues, MaxOps)

NextInit ==
  \/ Initialize("T1", Argvs, Loggers \X Aborters)
  \/ SetLogger("T1")
  \/ SetAborter("T1")
  \/ DtorCheck("T1")
  \/ DtorLock("T1")
  \/ DtorLogSingle("T1")
  \/ DtorUnlock("T1")
  \/ DtorAbort("T1")

SpecInit == InitEnv /\ [][NextInit]_vars

(* One thread calling InitLogging again and again, with other arguments   *)
(* and under another environment, the threshold set in between.           *)
ReinitEnvs == {NoEnv, EnvOf(<< "*", ":", "w" >>), EnvOf(<< "*", ":", "e" >>)}
InitReinit == InitWith({NoEnv, EnvOf(<< "*", ":", "w" >>)}, MaxOps)

NextReinit ==
  \/ Initialize("T1", {nullptr, "/bin/prog", "init"}, Loggers \X Aborters)
  \/ SetLogger("T1")
  \/ SetAborter("T1")
  \/ \E value \in ReinitEnvs : Setenv("T1", value)
  \/ Threshold("T1", {DEBUG})

SpecReinit == InitReinit /\ [][NextReinit]_vars

(* Threads creating and destroying records while the threshold is set.  *)
InitConc == InitWith({NoEnv}, MaxConcOps)

NextFilter ==
  \E t \in Threads :
       \/ \E severity \in {INFO, WARNING} : LogMessageCtor(t, severity, NoError)
       \/ stream(t, << "a" >>)
       \/ DtorCheck(t)
       \/ DtorLock(t)
       \/ DtorLogSingle(t)
       \/ DtorUnlock(t)
       \/ Threshold(t, {DEBUG, ERROR})

SpecFilter == InitConc /\ [][NextFilter]_vars

(* Threads opening and closing scoped severity overrides, each thread's  *)
(* own scopes nested.                                                    *)
NextScopes ==
  \E t \in Threads :
       \/ Scoped(t, {DEBUG, ERROR})
       \/ SetMinRead(t)
       \/ SetMinWrite(t)

SpecScopes == InitConc /\ [][NextScopes]_vars

(* Threads calling InitLogging concurrently, each with its own argv. *)
NextInitRace ==
  \E t \in Threads :
       \/ Initialize(t, {"/bin/prog", "init"}, {<< "TestLogger", "TestAborter" >>})
       \/ SetLogger(t)
       \/ SetAborter(t)

SpecInitRace == Init /\ [][NextInitRace]_vars

(* KernelLogger given a record, for every length of tag and message. *)
InitKernel == InitAll({NoEnv}, MaxOps, KlogInputs)

NextKernel == KernelLogger

SpecKernel == InitKernel /\ [][NextKernel]_vars

(* Threads calling SetMinimumLogSeverity concurrently. *)
NextThreshold == \E t \in Threads : Threshold(t, {DEBUG, ERROR})

SpecThreshold == Init /\ [][NextThreshold]_vars

----------------------------------------------------------------------------
(* Reference definitions for the properties below. *)

\* A thread has a record whose destructor has run or is running.
HasRecord(t) == recState[t] # "NONE"
Destroyed(t) == recState[t] \in {"FILTERED", "DONE", "ABORTING"}
Dispatched(t) == recState[t] \in {"DONE", "ABORTING"}

\* The finalized text of a thread's record, once its destructor passed the filter.
TextOf(t) == data_[t].buffer

\* A text split on line breaks: its first line, then the lines of the rest.
RECURSIVE Lines(_)
Lines(m) ==
  IF \A k \in 1..Len(m) : m[k] # NL THEN << m >>
  ELSE LET k == CHOOSE k \in 1..Len(m) : m[k] = NL /\ \A j \in 1..(k - 1) : m[j] # NL
       IN  << SubSeq(m, 1, k - 1) >> \o Lines(SubSeq(m, k + 1, Len(m)))

\* Lines joined again, a break between each two.
RECURSIVE Unlines(_)
Unlines(ls) ==
  IF Len(ls) = 0 THEN << >>
  ELSE IF Len(ls) = 1 THEN ls[1]
  ELSE ls[1] \o << NL >> \o Unlines(Tail(ls))

IsPrefix(a, b) == Len(a) <= Len(b) /\ SubSeq(b, 1, Len(a)) = a

\* What the logger was given for a thread's record, in order.
LoggedOf(t) == MessagesOf(CallsOf(t))

----------------------------------------------------------------------------
(* C1: the destructor of an emitted FATAL record calls the aborter exactly *)
(* once, when the logger has been given every line of the record: at the   *)
(* call all lines are logged, none is logged after it, and the destructor  *)
(* never ends without the call.                                            *)
C1_FatalAbortsOnceAfterAllLines ==
  \A t \in Threads :
    (recState[t] \in {"EMITTING", "DONE", "ABORTING"} /\ data_[t].severity = FATAL) =>
      /\ recState[t] # "DONE"
      /\ Len(AbortsOf(t)) = (IF recState[t] = "ABORTING" THEN 1 ELSE 0)
      /\ \A k \in 1..Len(AbortsOf(t)) :
           /\ AbortsOf(t)[k].logged = Lines(TextOf(t))
           /\ LoggedOf(t) = Lines(TextOf(t))

\* A FATAL record of several lines has been aborted under the threshold FATAL.
C1_Witness ==
  /\ recState["T1"] = "ABORTING"
  /\ data_["T1"].severity = FATAL
  /\ gMinimumLogSeverity = FATAL
  /\ Len(LoggedOf("T1")) = 3
  /\ Len(AbortsOf("T1")) = 1

(* C2: a record of any severity other than FATAL never has the aborter     *)
(* called, whatever the threshold, logger and aborter; if it passes the    *)
(* filter the logger is given each of its lines.                           *)
C2_OnlyFatalAborts ==
  \A t \in Threads :
    (HasRecord(t) /\ data_[t].severity # FATAL) =>
      /\ AbortsOf(t) = << >>
      /\ recState[t] # "ABORTING"
      /\ pc[t] # "dtor_abort"
      /\ recState[t] = "DONE" => LoggedOf(t) = Lines(TextOf(t))

\* A FATAL_WITHOUT_ABORT record of several lines is done, under the
\* threshold FATAL and a replaced aborter.
C2_Witness ==
  /\ recState["T1"] = "DONE"
  /\ data_["T1"].severity = FATAL_WITHOUT_ABORT
  /\ gMinimumLogSeverity = FATAL
  /\ Aborter = "TestAborter"
  /\ Len(LoggedOf("T1")) = 2

(* C3: the messages given to the logger for a record are its finalized     *)
(* text split on line breaks: while the lines are dispatched they are the  *)
(* first lines of the text, in order; when the dispatch is over they are   *)
(* all of them, none holds a break, joined by breaks they are the text,    *)
(* and a text without a break is given whole in one call.                  *)
C3_LinesAreTheSplitText ==
  \A t \in Threads :
    /\ recState[t] = "EMITTING" => IsPrefix(LoggedOf(t), Lines(TextOf(t)))
    /\ Dispatched(t) =>
         /\ LoggedOf(t) = Lines(TextOf(t))
         /\ \A k \in 1..Len(LoggedOf(t)) :
              \A j \in 1..Len(LoggedOf(t)[k]) : LoggedOf(t)[k][j] # NL
         /\ Unlines(LoggedOf(t)) = TextOf(t)
         /\ (\A j \in 1..Len(TextOf(t)) : TextOf(t)[j] # NL)
              => LoggedOf(t) = << TextOf(t) >>

\* A text that ends with a break has been dispatched: its last line is empty.
C3_Witness ==
  /\ recState["T1"] = "DONE"
  /\ TextOf("T1") = << "a", NL, NL >>
  /\ LoggedOf("T1") = << << "a" >>, << >>, << >> >>

(* C4: the aborter of a FATAL record is given the finalized text of the    *)
(* record exactly, with no line break added.                               *)
C4_AborterGetsTheText ==
  \A t \in Threads :
    \A k \in 1..Len(AbortsOf(t)) : AbortsOf(t)[k].message = TextOf(t)

(* C5: the logger calls of one record are a contiguous block of the order  *)
(* of all logger calls, and the thread dispatching a record holds the      *)
(* lock from before its first line until after its last.                   *)
C5_LinesOfARecordAreContiguous ==
  /\ \A j \in 1..Len(calls) : \A l \in j..Len(calls) :
       calls[j].thread = calls[l].thread =>
         \A k \in j..l : calls[k].thread = calls[j].thread
  /\ \A t \in Threads :
       pc[t] \in {"dtor_single", "dtor_loop", "dtor_unlock"} => LoggingLock = t

\* Between two lines of T1's record, T2 is waiting to dispatch a record of
\* several lines.
C5_Witness ==
  /\ pc["T1"] = "dtor_loop"
  /\ Len(CallsOf("T1")) = 1
  /\ pc["T2"] = "dtor_lock"
  /\ HasBreak(msg["T2"])

(* C6: every line of a record is given to one logger, also when SetLogger  *)
(* runs while the record is dispatched.                                    *)
C6_OneLoggerPerRecord ==
  \A j \in 1..Len(calls) : \A k \in 1..Len(calls) :
    calls[j].thread = calls[k].thread => calls[j].logger = calls[k].logger

\* Between two lines of T1's record, T2 is in SetLogger with another logger.
C6_Witness ==
  /\ pc["T1"] = "dtor_loop"
  /\ Len(CallsOf("T1")) = 1
  /\ pc["T2"] = "SetLogger"
  /\ args["T2"].kind = "SetLogger"
  /\ args["T2"].logger # Logger

(* C7: while the logger and the aborter are replaced only in pairs, by     *)
(* InitLogging, the logger given the lines of a FATAL record and the       *)
(* aborter then called are one of the installed pairs.                     *)
C7_PairSwapIsAtomic ==
  \A t \in Threads :
    \A k \in 1..Len(AbortsOf(t)) : \A j \in 1..Len(CallsOf(t)) :
      << CallsOf(t)[j].logger, AbortsOf(t)[k].aborter >> \in Pairs

(* C8: a record is emitted at its destruction exactly if its severity is   *)
(* at least the threshold or is one of the two fatal tiers: a filtered     *)
(* record is below the threshold, not fatal, and reaches no logger; a      *)
(* record that passed is given to the logger.                              *)
ShouldEmit(S, T) == S >= T \/ S \in {FATAL, FATAL_WITHOUT_ABORT}

C8_EmittedIffShouldEmit ==
  \A t \in Threads :
    /\ recState[t] = "FILTERED" =>
         /\ ~ShouldEmit(data_[t].severity, gMinimumLogSeverity)
         /\ CallsOf(t) = << >>
    /\ recState[t] \in {"EMITTING", "DONE", "ABORTING"} =>
         ShouldEmit(data_[t].severity, gMinimumLogSeverity)
    /\ Dispatched(t) => Len(CallsOf(t)) >= 1

\* A FATAL_WITHOUT_ABORT record with an errno was emitted under the
\* threshold FATAL.
C8_Witness ==
  /\ recState["T1"] = "DONE"
  /\ data_["T1"].severity = FATAL_WITHOUT_ABORT
  /\ data_["T1"].error # NoError
  /\ gMinimumLogSeverity = FATAL
  /\ Len(CallsOf("T1")) = 1

(* C9: in one thread, when a scope ends the threshold is what it was when  *)
(* that scope was entered, and when no scope is left it is the original    *)
(* value; between scopes the saved values are the thresholds at entry.     *)
C9_ScopesRestoreInStackOrder ==
  /\ results["T1"].kind = "ScopedDtor" => gMinimumLogSeverity = results["T1"].before
  /\ (pc["T1"] = "idle" /\ scopes["T1"] = << >>) => gMinimumLogSeverity = INFO
  /\ pc["T1"] = "idle" => scopes["T1"] = entered["T1"]

\* The inner of two nested scopes has ended after a record was emitted in
\* it, and the threshold is the outer scope's, not the original.
C9_Witness ==
  /\ results["T1"].kind = "ScopedDtor"
  /\ Len(scopes["T1"]) = 1
  /\ recState["T1"] = "DONE"
  /\ gMinimumLogSeverity = DEBUG
  /\ results["T1"].value = ERROR

(* C10: after the first InitLogging call under an override string of valid *)
(* tokens only, the threshold is the severity of the last token, no record *)
(* was emitted and the aborter was not called; the parser never sets the   *)
(* threshold to FATAL.                                                     *)
ValidLetters == {"v", "d", "i", "w", "e", "f", "s"}
ValidTokenLists == UNION { [1..n -> { << "*", ":", x >> : x \in ValidLetters }] : n \in 1..MaxTokens }
SeverityOfLetter(x) ==
  CASE x = "v" -> VERBOSE [] x = "d" -> DEBUG [] x = "i" -> INFO
    [] x = "w" -> WARNING [] x = "e" -> ERROR
    [] x = "f" -> FATAL_WITHOUT_ABORT [] x = "s" -> FATAL_WITHOUT_ABORT

FirstInitDone(t) == results[t].kind = "InitLogging" /\ results[t].value = 1

C10_LastValidTokenWins ==
  /\ gMinimumLogSeverity # FATAL
  /\ \A l \in ValidTokenLists :
       (FirstInitDone("T1") /\ env = EnvOf(Join(l))) =>
         /\ gMinimumLogSeverity = SeverityOfLetter(l[Len(l)][3])
         /\ ~HasRecord("T1")
         /\ CallsOf("T1") = << >>
         /\ aborts = << >>

\* The first call has returned under "*:e *:s".
C10_Witness ==
  /\ FirstInitDone("T1")
  /\ env = EnvOf(<< "*", ":", "e", " ", "*", ":", "s" >>)
  /\ gMinimumLogSeverity = FATAL_WITHOUT_ABORT

(* C11: in the first InitLogging call every token of the override string   *)
(* that is not "*:" and one of v d i w e f s is reported by a FATAL record *)
(* given to the logger and then to the aborter the call installed, in      *)
(* token order, each before the next token is looked at: when n tokens     *)
(* are processed the aborter calls are those of the bad tokens among them, *)
(* each made when the logger had the records up to its own, and the        *)
(* threshold is that of the last valid token among them.                   *)
IsTagSpec(tok) == tok \in { << "*", ":", x >> : x \in ValidLetters }
BadTokens(toks) == SelectSeq(toks, LAMBDA tok : ~IsTagSpec(tok))
GoodTokens(toks) == SelectSeq(toks, IsTagSpec)
ReportOf(tok, str) ==
  << "unsupported '" >> \o tok \o << "' in ANDROID_LOG_TAGS (" >> \o str \o << ")" >>
ReportsOf(toks, str) == [k \in 1..Len(toks) |-> ReportOf(toks[k], str)]

\* The thread is in the parse loop of the first call, or has ended it.
InRecord(t) == pc[t] \in {"stream", "dtor_lock", "dtor_single", "dtor_loop",
                           "dtor_unlock", "dtor_abort"}
Reporting(t) == ret[t] = "init_loop" /\ InRecord(t)
InParse(t) == pc[t] = "init_loop" \/ Reporting(t)
\* Tokens wholly processed: a token being reported is not yet.
Processed(t) == IF Reporting(t) THEN spec_i[t] - 1 ELSE spec_i[t]

\* A string split on single spaces: its first field, then those of the rest.
RECURSIVE Fields(_)
Fields(s) ==
  IF \A k \in 1..Len(s) : s[k] # " " THEN << s >>
  ELSE LET k == CHOOSE k \in 1..Len(s) : s[k] = " " /\ \A j \in 1..(k - 1) : s[j] # " "
       IN  << SubSeq(s, 1, k - 1) >> \o Fields(SubSeq(s, k + 1, Len(s)))

C11_BadTokensAreFatalInOrder ==
  (~env.isnull /\ (InParse("T1") \/ FirstInitDone("T1"))) =>
      LET t == "T1"
          l == Fields(env.str)
          n == IF FirstInitDone(t) THEN Len(l) ELSE Processed(t)
          done == SubSeq(l, 1, n)
          bad == ReportsOf(BadTokens(done), env.str)
          good == GoodTokens(done)
      IN  /\ MessagesOf(AbortsOf(t)) = bad
          /\ \A k \in 1..Len(AbortsOf(t)) :
               /\ AbortsOf(t)[k].aborter = args[t].aborter
               /\ AbortsOf(t)[k].logged = SubSeq(bad, 1, k)
          /\ \A k \in 1..Len(CallsOf(t)) :
               /\ CallsOf(t)[k].logger = args[t].logger
               /\ CallsOf(t)[k].severity = FATAL
          /\ IF Reporting(t)
             THEN /\ ~IsTagSpec(l[n + 1])
                  /\ LoggedOf(t) \in {bad, Append(bad, ReportOf(l[n + 1], env.str))}
                  /\ recState[t] # "FILTERED"
             ELSE LoggedOf(t) = bad
          /\ gMinimumLogSeverity =
               (IF good = << >> THEN INFO ELSE SeverityOfLetter(good[Len(good)][3]))

\* Under " *:q" (a leading space, then an unknown letter) and an aborter
\* that returns, the first call has ended: two records, two aborter calls.
C11_Witness ==
  /\ FirstInitDone("T1")
  /\ env = EnvOf(<< " ", "*", ":", "q" >>)
  /\ args["T1"].aborter = "TestAborter"
  /\ Len(AbortsOf("T1")) = 2
  /\ AbortsOf("T1")[1].message = ReportOf(<< >>, env.str)
  /\ AbortsOf("T1")[2].message = ReportOf(<< "*", ":", "q" >>, env.str)

(* C12: of the InitLogging calls one thread makes one after another, only  *)
(* the first goes on to stash the program name (of a non-null argv) and to *)
(* read the override string; a later call changes neither the threshold    *)
(* nor the program name, whatever its argv and the environment; and every  *)
(* call, first or later, has installed its logger and its aborter when it  *)
(* returns.                                                                *)
InInstall(t) ==
  args[t].kind = "InitLogging" /\ pc[t] \in {"SetLogger", "SetAborter", "init_check"}
LaterCall(t) == InInstall(t) /\ gInitialized

C12_StepOfInit(t) ==
  /\ LaterCall(t) =>
       /\ gMinimumLogSeverity' = gMinimumLogSeverity
       /\ ProgramInvocationName' = ProgramInvocationName
       /\ pc'[t] \in {"SetAborter", "init_check", "idle"}
       /\ tags' = tags
  /\ (InInstall(t) /\ ~gInitialized /\ pc[t] = "init_check") => pc'[t] = "init_set"
  /\ pc[t] = "init_stash" =>
       /\ pc'[t] = "init_getenv"
       /\ ProgramInvocationName' = IF args[t].argv = nullptr THEN ProgramInvocationName
                                   ELSE basename(args[t].argv)
  /\ pc[t] = "init_getenv" => tags'[t] = env

C12_Installed(t) ==
  /\ results[t].kind = "InitLogging" =>
       /\ Logger = args[t].logger
       /\ Aborter = args[t].aborter
       /\ gInitialized
  /\ (FirstInitDone(t) /\ args[t].argv # nullptr) =>
       ProgramInvocationName = basename(args[t].argv)

C12_OnlyFirstCallInitializes ==
  [](C12_Installed("T1")) /\ [][C12_StepOfInit("T1")]_vars

\* A later call has returned: its argv names another program than the one
\* stashed, the environment now asks for ERROR, and the threshold is the
\* one set after the first call.
C12_Witness ==
  /\ results["T1"].kind = "InitLogging"
  /\ results["T1"].value = 0
  /\ args["T1"].argv = "init"
  /\ ProgramInvocationName = "prog"
  /\ env = EnvOf(<< "*", ":", "e" >>)
  /\ gMinimumLogSeverity = DEBUG
  /\ Logger = "TestLogger"
  /\ Aborter = "TestAborter"

(* C13: concurrent SetMinimumLogSeverity calls are atomic exchanges: when  *)
(* each of two threads has made one call, the values returned and the      *)
(* final threshold are those of the calls made in some serial order.       *)
FirstExchangeDone(t) ==
  /\ pc[t] = "idle"
  /\ ops[t] = 1
  /\ results[t].kind = "SetMinimumLogSeverity"

SerialOrder(first, second) ==
  /\ results[first].value = INFO
  /\ results[second].value = args[first].new_severity
  /\ gMinimumLogSeverity = args[second].new_severity

C13_ExchangeIsSerial ==
  (FirstExchangeDone("T1") /\ FirstExchangeDone("T2")) =>
    (SerialOrder("T1", "T2") \/ SerialOrder("T2", "T1"))

(* C14: KernelLogger hands write() no more bytes than its 1024-byte buffer *)
(* holds, and when the line "<level>tag: msg\n" with its terminator does   *)
(* not fit in the buffer what is written is the too-long notice, never a   *)
(* cut line.                                                               *)
LineBytes(tag, m) == 3 + tag + 2 + m + 1

C14_KernelWriteIsBounded ==
  klog.at = "written" =>
    /\ klog.iov_len <= 1024
    /\ LineBytes(klog.tag, klog.msg) + 1 > 1024 => klog.buf.format = "notice"
    /\ klog.buf.format = "line" => klog.buf.held = LineBytes(klog.tag, klog.msg)

(* C15: whether a record is emitted is decided when it is destroyed, by    *)
(* the threshold of that moment: the destructor of a record that is then   *)
(* below the threshold and not fatal ends at once, with no logger call, no *)
(* aborter call and no lock taken, and leaves the logger, the aborter, the *)
(* threshold and the program name as they are, also when the record would  *)
(* have passed the threshold of its creation.                              *)
C15_StepOfDestructor(t) ==
  (pc[t] = "stream" /\ pc'[t] # "stream") =>
    IF ~ShouldEmit(data_[t].severity, gMinimumLogSeverity)
    THEN /\ recState'[t] = "FILTERED"
         /\ pc'[t] = ret[t]
         /\ UNCHANGED << Logger, Aborter, gMinimumLogSeverity, ProgramInvocationName,
                         LoggingLock, calls, aborts, data_ >>
    ELSE recState'[t] = "EMITTING"

C15_NoTraceOfFiltered(t) ==
  recState[t] = "FILTERED" =>
    /\ CallsOf(t) = << >>
    /\ AbortsOf(t) = << >>
    /\ LoggingLock # t
    /\ data_[t].severity \notin {FATAL, FATAL_WITHOUT_ABORT}

C15_FilterDecidedAtDestruction ==
  /\ [](\A t \in Threads : C15_NoTraceOfFiltered(t))
  /\ [][\A t \in Threads : C15_StepOfDestructor(t)]_vars

\* T1's INFO record, created under the threshold INFO, was filtered: T2
\* raised the threshold to ERROR before it was destroyed.
C15_Witness ==
  /\ recState["T1"] = "FILTERED"
  /\ results["T1"].kind = "LogMessage"
  /\ data_["T1"].severity = INFO
  /\ ShouldEmit(data_["T1"].severity, results["T1"].value)
  /\ gMinimumLogSeverity = ERROR
  /\ results["T2"].kind = "SetMinimumLogSeverity"

(* C16: the text of an emitted record is what was streamed, followed by    *)
(* ": " and the description of the error code exactly if the code is not   *)
(* -1; that text, suffix included, is what is split into lines and what    *)
(* the aborter of a FATAL record is given; a filtered record's buffer gets *)
(* no suffix.                                                              *)
Suffix(error) == IF error = -1 THEN << >> ELSE << ": " >> \o strerror(error)
Streamed(text) == \A k \in 1..Len(text) : text[k] \in Chars
EndsWith(text, end) ==
  /\ Len(text) >= Len(end)
  /\ SubSeq(text, Len(text) - Len(end) + 1, Len(text)) = end

C16_StepOfDestructor(t) ==
  (pc[t] = "stream" /\ pc'[t] # "stream") =>
    IF recState'[t] = "FILTERED"
    THEN data_'[t] = data_[t]
    ELSE /\ data_'[t].buffer = data_[t].buffer \o Suffix(data_[t].error)
         /\ msg'[t] = data_'[t].buffer

C16_TextOfRecord(t) ==
  /\ recState[t] \in {"ACCUMULATING", "FILTERED"} => Streamed(TextOf(t))
  /\ recState[t] \in {"EMITTING", "DONE", "ABORTING"} =>
       /\ EndsWith(TextOf(t), Suffix(data_[t].error))
       /\ Streamed(SubSeq(TextOf(t), 1, Len(TextOf(t)) - Len(Suffix(data_[t].error))))
  /\ Dispatched(t) =>
       /\ LoggedOf(t) = Lines(TextOf(t))
       /\ EndsWith(LoggedOf(t)[Len(LoggedOf(t))], Suffix(data_[t].error))
  /\ \A k \in 1..Len(AbortsOf(t)) : IsPrefix(TextOf(t), AbortsOf(t)[k].message)

C16_SuffixIffErrorCode ==
  /\ [](\A t \in Threads : C16_TextOfRecord(t))
  /\ [][\A t \in Threads : C16_StepOfDestructor(t)]_vars

\* A FATAL record of two lines with the code ENOENT has been given to the
\* logger and the aborter: the suffix ends its last line.
C16_Witness ==
  /\ recState["T1"] = "ABORTING"
  /\ data_["T1"].error = 2
  /\ LoggedOf("T1") = << << "a" >>, << "a", ": ", "No such file or directory" >> >>
  /\ Len(AbortsOf("T1")) = 1

(* C17: when the scopes that concurrent threads opened, each thread's own  *)
(* nested, have all ended, the threshold is what it was before the first  *)
(* of them was entered.                                                    *)
AllScopesEnded == \A t \in Threads : pc[t] = "idle" /\ scopes[t] = << >>

C17_ConcurrentScopesRestore == AllScopesEnded => gMinimumLogSeverity = INFO

(* C18: of the InitLogging calls concurrent threads make on a process not  *)
(* yet initialized, at most one passes the check of the initialization     *)
(* flag and goes on to stash the program name and parse the override       *)
(* string.                                                                 *)
PassedTheCheck(t) ==
  /\ args[t].kind = "InitLogging"
  /\ \/ pc[t] \in {"init_set", "init_stash", "init_getenv", "init_loop"}
     \/ FirstInitDone(t)

C18_OneCallInitializes == Cardinality({t \in Threads : PassedTheCheck(t)}) <= 1

(* C19: under fair scheduling, with loggers that return and call nothing   *)
(* of the logging interface, every destructor of a record and every        *)
(* SetLogger, SetAborter and InitLogging call that a thread has started    *)
(* ends, or the process is ended by abort().                               *)
Inside(t) == pc[t] \notin {"idle", "stream"}
Completed(t) == pc[t] = "idle" \/ aborted

C19_EveryCallCompletes == \A t \in Threads : Inside(t) ~> Completed(t)

\* T1 waits for the lock in SetLogger while T2 holds it between two lines
\* of its record.
C19_Witness ==
  /\ pc["T1"] = "SetLogger"
  /\ pc["T2"] = "dtor_loop"
  /\ LoggingLock = "T2"
  /\ Len(CallsOf("T2")) = 1

(* C20: the thread emitting a FATAL record does not hold the logging lock  *)
(* when it reads and calls the aborter: the lock is free, or held by       *)
(* another thread, from the end of the record's last line on.              *)
C20_AborterRunsWithoutTheLock ==
  /\ \A t \in Threads : pc[t] = "dtor_abort" => LoggingLock # t
  /\ \A k \in 1..Len(aborts) : aborts[k].lock # aborts[k].thread

\* T1 has given the logger both lines of its FATAL record and not yet
\* called the aborter; meanwhile T2 has dispatched a whole record.
C20_Witness ==
  /\ pc["T1"] = "dtor_abort"
  /\ Len(CallsOf("T1")) = 2
  /\ calls[1].thread = "T1"
  /\ calls[Len(calls)].thread = "T2"
  /\ recState["T2"] = "DONE"

====
